---------------------------- MODULE Spec2Model ----------------------------
(***************************************************************************)
(* Model of src/app.py: a Flask application that lays out greeting-card    *)
(* artwork as an HTML/CSS document (flat card: two pages; folded card: two *)
(* spreads) and hands it to the DocRaptor/Prince rendering backend.        *)
(*                                                                         *)
(* Representation.                                                         *)
(*   - A length f"{x}in" is the record [val |-> thousandths of an inch,    *)
(*     unit |-> "in"].  Every length of the program is a multiple of 1/8   *)
(*     inch, so Python's binary floats hold it exactly and str() prints    *)
(*     its exact decimal expansion.                                        *)
(*   - A file name is the sequence of its '.'-separated components         *)
(*     ("a.png" is <<"a", "png">>, "" is <<"">>).                          *)
(*   - Bytes are sequences of 0..255; base64 text is a sequence of         *)
(*     one-character strings.                                              *)
(*   - A Python Optional is <<>> (None) or <<x>>.                          *)
(*   - A dict is a function whose DOMAIN is the set of its keys.           *)
(*   - The markup is a record: the @prince-pdf block, the @page rule, the  *)
(*     CSS rules that carry interpolated values or page breaks, and the    *)
(*     element tree of <body>.  get_common_styles() is a constant string   *)
(*     without interpolation and is left out.                              *)
(***************************************************************************)
EXTENDS Integers, Sequences, FiniteSets, TLC

VARIABLES
    icc_profiles,   \* ICC_PROFILES_DIR: file name -> bytes of the file
    request,        \* the HTTP request being answered: <<>>, then <<request>>
    settings,       \* the settings dict the handler built: <<>> or <<dict>>
    backend,        \* the doc_params handed to doc_api.create_doc: <<>> or <<dict>>
    upload_folder,  \* app.config['UPLOAD_FOLDER']: file name -> bytes
    response,       \* the HTTP response: <<>>, then <<response>>
    threads         \* requests served concurrently: thread -> its request,
                    \* its position in generate_pdf and its local variables

vars == <<icc_profiles, request, settings, backend, upload_folder, response,
          threads>>

----------------------------------------------------------------------------
(* Bounds of the model *)

\* Longest ICC profile file, in bytes.
MaxIccLen == 3
\* Longest image file, in bytes.
MaxImgLen == 1

----------------------------------------------------------------------------
(* Python helpers *)

None == <<>>
Some(x) == <<x>>

\* dict.get(key, default)
Get(dict, key, default) == IF key \in DOMAIN dict THEN dict[key] ELSE default

Last(s) == s[Len(s)]

\* str.lower() on one file-name component
Lower(s) ==
    CASE s = "PNG" -> "png"
      [] s = "JPG" -> "jpg"
      [] s = "ICC" -> "icc"
      [] OTHER -> s

\* Powers of two used by base64
Pow2(n) == IF n = 6 THEN 64 ELSE IF n = 8 THEN 256 ELSE IF n = 12 THEN 4096
           ELSE IF n = 16 THEN 65536 ELSE 262144

B64Alphabet ==
    << "A","B","C","D","E","F","G","H","I","J","K","L","M","N","O","P",
       "Q","R","S","T","U","V","W","X","Y","Z","a","b","c","d","e","f",
       "g","h","i","j","k","l","m","n","o","p","q","r","s","t","u","v",
       "w","x","y","z","0","1","2","3","4","5","6","7","8","9","+","/" >>

B64Char(sextet) == B64Alphabet[sextet + 1]

\* One group of 1..3 bytes -> 4 characters, '=' padded (RFC 4648)
B64Group(g) ==
    LET b1 == g[1]
        b2 == IF Len(g) >= 2 THEN g[2] ELSE 0
        b3 == IF Len(g) >= 3 THEN g[3] ELSE 0
        n  == b1 * Pow2(16) + b2 * Pow2(8) + b3
        c1 == B64Char(n \div Pow2(18))
        c2 == B64Char((n \div Pow2(12)) % 64)
        c3 == B64Char((n \div Pow2(6)) % 64)
        c4 == B64Char(n % 64)
    IN  CASE Len(g) = 1 -> <<c1, c2, "=", "=">>
          [] Len(g) = 2 -> <<c1, c2, c3, "=">>
          [] OTHER      -> <<c1, c2, c3, c4>>

RECURSIVE b64encode(_)
\* base64.b64encode(data).decode('utf-8')
b64encode(data) ==
    IF data = <<>> THEN <<>>
    ELSE IF Len(data) <= 3 THEN B64Group(data)
    ELSE B64Group(SubSeq(data, 1, 3)) \o b64encode(SubSeq(data, 4, Len(data)))

----------------------------------------------------------------------------
(* Module constants of app.py *)

ALLOWED_EXTENSIONS == {"png", "jpg", "jpeg", "gif", "webp", "tiff", "tif"}

PDF_PROFILES ==
    {"PDF/X-4", "PDF/X-1a", "PDF/X-3", "PDF/A-1a", "PDF/A-1b",
     "PDF/A-3a", "PDF/A-3b", "PDF/UA-1", ""}

\* A panel's content is one element: an <img> or one of the four fixed
\* placeholder fragments.  Both have the same fields.
Fragment(name, cls, caption, message) ==
    [tag |-> "div", cls |-> cls, frag |-> name, caption |-> caption,
     message |-> message, mime |-> "", data |-> <<>>, alt |-> "", style |-> ""]

BACK_PANEL_CONTENT ==
    Fragment("BACK_PANEL_CONTENT", "back-content", "", "")

INSIDE_LEFT_CONTENT ==
    Fragment("INSIDE_LEFT_CONTENT", "inside-content inside-left",
             "Panel 2 - Inside Left", "")

INSIDE_RIGHT_CONTENT ==
    Fragment("INSIDE_RIGHT_CONTENT", "inside-content inside-right",
             "Panel 3 - Inside Right",
             "Wishing you all the best on your special day!")

PANEL_4_CONTENT ==
    Fragment("PANEL_4_CONTENT", "back-content panel-4",
             "Panel 4 - Back Cover", "")

\* <img class="image" src="data:image/{type};base64,{data}" alt=... style=...>
Img(type, data, alt, style) ==
    [tag |-> "img", cls |-> "image", frag |-> "", caption |-> "",
     message |-> "", mime |-> "image/" \o type, data |-> data, alt |-> alt,
     style |-> style]

\* filename.rsplit('.', 1)[1].lower() in ALLOWED_EXTENSIONS, given a '.'
allowed_file(filename) ==
    Len(filename) >= 2 /\ Lower(Last(filename)) \in ALLOWED_EXTENSIONS

----------------------------------------------------------------------------
(* The ICC profile store *)

\* str.lower().endswith('.icc')
EndsWithIcc(name) == Len(name) >= 2 /\ Lower(Last(name)) = "icc"

\* Lines 55-59: the file of a profile name, '.icc' added if not present
ProfilePath(profile_name) ==
    IF EndsWithIcc(profile_name) THEN profile_name ELSE Append(profile_name, "icc")

\* get_icc_profile_base64(profile_name): the file's bytes in base64, or None
get_icc_profile_base64(store, profile_name) ==
    IF profile_name = <<"">> THEN None
    ELSE LET name == ProfilePath(profile_name)
         IN  IF name \in DOMAIN store THEN Some(b64encode(store[name]))
             ELSE None

----------------------------------------------------------------------------
(* ColorDirectiveBuilder: get_prince_pdf_css *)

Decl(prop, value) == [prop |-> prop, value |-> value]

\* Mutant: the output intent names the stored file instead of embedding it
OutputIntentUrl_Path(icc_base64) ==
    <<"url", "file:///icc_profiles/profile.icc">>

\* url("data:application/vnd.iccprofile;base64,{icc_base64}")
OutputIntentUrl(icc_base64) ==
    <<"url", "data:application/vnd.iccprofile;base64,">> \o icc_base64

\* Python truthiness of an Optional[str]
Truthy(opt) == opt # None /\ opt[1] # <<>>

\* Mutant: the two keywords in the other order
color_options_Swapped(s) ==
    (IF Get(s, "use_cmyk_colors", FALSE) THEN <<"use-cmyk-colors">> ELSE <<>>)
    \o (IF Get(s, "use_true_black", TRUE) THEN <<"use-true-black">> ELSE <<>>)

\* color_options of get_prince_pdf_css, in the order it appends them
color_options(s) ==
    (IF Get(s, "use_true_black", TRUE) THEN <<"use-true-black">> ELSE <<>>)
    \o (IF Get(s, "use_cmyk_colors", FALSE) THEN <<"use-cmyk-colors">> ELSE <<>>)

\* The lines of the block, in the order get_prince_pdf_css appends them
prince_pdf_css(s) ==
    LET pdf_profile == Get(s, "pdf_profile", "PDF/X-4")
        icc_base64  == Get(s, "icc_base64", None)
    IN  (IF pdf_profile # "" THEN <<Decl("prince-pdf-profile", <<pdf_profile>>)>>
         ELSE <<>>)
        \o (IF color_options(s) # <<>>
            THEN <<Decl("prince-pdf-color-options", color_options(s))>>
            ELSE <<>>)
        \o (IF Truthy(icc_base64)
            THEN <<Decl("prince-pdf-output-intent", OutputIntentUrl(icc_base64[1]))>>
            ELSE <<>>)

\* Mutant: the block is emitted even when it has no line
get_prince_pdf_css_Always(s) ==
    << [at |-> "@prince-pdf", lines |-> prince_pdf_css(s)] >>

\* The '' of line 168 is <<>>; the block is one at-rule with its lines.
get_prince_pdf_css(s) ==
    IF prince_pdf_css(s) # <<>>
    THEN << [at |-> "@prince-pdf", lines |-> prince_pdf_css(s)] >>
    ELSE <<>>

----------------------------------------------------------------------------
(* GeometryCalculator, PanelContentResolver, DocumentAssembler *)

\* Lengths in thousandths of an inch
card_width == 4750
card_height == 6750
panel_width == 4750
panel_height == 6750
\* 0.125 if settings.get('add_bleed', False) else 0
BleedAmount == 125

\* f"{x}in"
In(x) == [val |-> x, unit |-> "in"]

\* Python truthiness of an Optional[str] holding a short string
TruthyStr(opt) == opt # None /\ opt[1] # ""

\* 0.125 if settings.get('add_bleed', False) else 0
Bleed(s) == IF Get(s, "add_bleed", FALSE) THEN BleedAmount ELSE 0

\* Mutant: crop marks whatever the bleed
Marks_Always(bleed) == "crop"

\* 'crop' if bleed > 0 else 'none'
Marks(bleed) == IF bleed > 0 THEN "crop" ELSE "none"

\* Back of a flat card: the image, else BACK_PANEL_CONTENT
FlatBackContent(back_image_data, back_image_type) ==
    IF Truthy(back_image_data) /\ TruthyStr(back_image_type)
    THEN Img(back_image_type[1], back_image_data[1], "Card Back", "")
    ELSE BACK_PANEL_CONTENT

\* Mutant: the folded card falls back to the flat card's back fragment
FoldedBackContent_FlatFallback(back_image_data, back_image_type) ==
    IF Truthy(back_image_data) /\ TruthyStr(back_image_type)
    THEN Img(back_image_type[1], back_image_data[1], "Back Cover", "")
    ELSE BACK_PANEL_CONTENT

\* Back cover (Panel 4) of a folded card: the image, else PANEL_4_CONTENT
FoldedBackContent(back_image_data, back_image_type) ==
    IF Truthy(back_image_data) /\ TruthyStr(back_image_type)
    THEN Img(back_image_type[1], back_image_data[1], "Back Cover", "")
    ELSE PANEL_4_CONTENT

\* Mutant: both halves of the inside image anchored on the same side
InsideContent_SameSide(inside_image_data, inside_image_type) ==
    IF Truthy(inside_image_data) /\ TruthyStr(inside_image_type)
    THEN << Img(inside_image_type[1], inside_image_data[1], "Inside Left",
                "object-position: left center;"),
            Img(inside_image_type[1], inside_image_data[1], "Inside Right",
                "object-position: left center;"),
            <<>> >>
    ELSE << INSIDE_LEFT_CONTENT, INSIDE_RIGHT_CONTENT,
            << [cls |-> "fold-indicator", children |-> <<>>] >> >>

\* Inside of a folded card: <<Panel 2, Panel 3, fold indicator>>
InsideContent(inside_image_data, inside_image_type) ==
    IF Truthy(inside_image_data) /\ TruthyStr(inside_image_type)
    THEN << Img(inside_image_type[1], inside_image_data[1], "Inside Left",
                "object-position: right center;"),
            Img(inside_image_type[1], inside_image_data[1], "Inside Right",
                "object-position: left center;"),
            <<>> >>
    ELSE << INSIDE_LEFT_CONTENT, INSIDE_RIGHT_CONTENT,
            << [cls |-> "fold-indicator", children |-> <<>>] >> >>

Rule(cls, pseudo, decls) == [cls |-> cls, pseudo |-> pseudo, decls |-> decls]

El(cls, children) == [cls |-> cls, children |-> children]

\* Mutant: the content box is sized to the bleed but not shifted into it
ContentBox_NoOffset(total_width, total_height, bleed, bg_color) ==
    [top |-> In(0), left |-> In(0),
     width |-> In(total_width), height |-> In(total_height),
     background_color |-> bg_color]

\* top: -{bleed}in; left: -{bleed}in; width: {total}in; height: {total}in
ContentBoxDecls(total_width, total_height, bleed, bg_color) ==
    [top |-> In(-bleed), left |-> In(-bleed),
     width |-> In(total_width), height |-> In(total_height),
     background_color |-> bg_color]

\* Mutant: the rule that spares the last page its break is missing
PageRules_AllBreak(cls, width, height) ==
    << Rule(cls, "",
            [width |-> In(width), height |-> In(height),
             page_break_after |-> "always"]) >>

\* .page / .spread: page-break-after always; :last-child: avoid
PageRules(cls, width, height) ==
    << Rule(cls, "",
            [width |-> In(width), height |-> In(height),
             page_break_after |-> "always"]),
       Rule(cls, "last-child", [page_break_after |-> "avoid"]) >>

\* The rules of the flat template that interpolate a value or set a page break
FlatRules(total_width, total_height, bleed, fit_mode, bg_color) ==
    PageRules("page", card_width, card_height)
    \o
    << Rule("page-content", "",
            ContentBoxDecls(total_width, total_height, bleed, bg_color)),
       Rule("image", "", [object_fit |-> fit_mode]),
       Rule("back-page-content", "",
            ContentBoxDecls(total_width, total_height, bleed, bg_color)) >>

\* <body> of the flat template: Page 1 front, Page 2 back
FlatBody(front_content, back_content) ==
    << El("page", << El("page-content", <<front_content>>) >>),
       El("page", << El("back-page-content", <<back_content>>) >>) >>

generate_flat_card_html(image_data, image_type, s, back_image_data, back_image_type) ==
    LET bleed        == Bleed(s)
        total_width  == card_width + (bleed * 2)
        total_height == card_height + (bleed * 2)
        fit_mode     == Get(s, "image_fit", "cover")
        bg_color     == Get(s, "background_color", "#ffffff")
        marks        == Marks(bleed)
        back_content == FlatBackContent(back_image_data, back_image_type)
    IN  [ template |-> "flat",
          prince_pdf_block |-> get_prince_pdf_css(s),
          page_rule |-> [ size_width |-> In(card_width),
                          size_height |-> In(card_height),
                          margin |-> 0,
                          bleed |-> In(bleed),
                          marks |-> marks ],
          rules |-> FlatRules(total_width, total_height, bleed, fit_mode, bg_color),
          body |-> FlatBody(Img(image_type, image_data, "Card Front", ""),
                            back_content) ]

\* The rules of the folded template that interpolate a value or set a page break
FoldedRules(spread_width, spread_height, total_spread_width, total_spread_height, bleed, fit_mode, bg_color) ==
    PageRules("spread", spread_width, spread_height)
    \o
    << Rule("spread-content", "",
            ContentBoxDecls(total_spread_width, total_spread_height, bleed, bg_color)),
       Rule("panel-inner", "", [background_color |-> bg_color]),
       Rule("image", "", [object_fit |-> fit_mode]),
       Rule("fold-indicator", "", [border_left |-> "0.5px dashed"]) >>

Panel(content) == El("panel", << El("panel-inner", <<content>>) >>)

\* Mutant: the inside spread never carries the fold indicator
FoldedBody_NoInsideIndicator(front_content, back_panel_content, inside_left_content, inside_right_content, inside_fold_indicator) ==
    << El("spread",
          << El("spread-content",
                << Panel(back_panel_content), Panel(front_content) >>),
             El("fold-indicator", <<>>) >>),
       El("spread",
          << El("spread-content",
                << Panel(inside_left_content), Panel(inside_right_content) >>) >>) >>

\* Mutant: the front cover on the left of the outside spread
FoldedBody_FrontLeft(front_content, back_panel_content, inside_left_content, inside_right_content, inside_fold_indicator) ==
    << El("spread",
          << El("spread-content",
                << Panel(front_content), Panel(back_panel_content) >>),
             El("fold-indicator", <<>>) >>),
       El("spread",
          << El("spread-content",
                << Panel(inside_left_content), Panel(inside_right_content) >>) >>
          \o inside_fold_indicator) >>

\* <body> of the folded template: Spread 1 outside (Panel 4 | Panel 1),
\* Spread 2 inside (Panel 2 | Panel 3)
FoldedBody(front_content, back_panel_content, inside_left_content, inside_right_content, inside_fold_indicator) ==
    << El("spread",
          << El("spread-content",
                << Panel(back_panel_content), Panel(front_content) >>),
             El("fold-indicator", <<>>) >>),
       El("spread",
          << El("spread-content",
                << Panel(inside_left_content), Panel(inside_right_content) >>) >>
          \o inside_fold_indicator) >>

generate_folded_card_html(image_data, image_type, s, inside_image_data, inside_image_type, back_image_data, back_image_type) ==
    LET bleed               == Bleed(s)
        spread_width        == panel_width * 2
        spread_height       == panel_height
        total_spread_width  == spread_width + (bleed * 2)
        total_spread_height == spread_height + (bleed * 2)
        fit_mode            == Get(s, "image_fit", "cover")
        bg_color            == Get(s, "background_color", "#ffffff")
        marks               == Marks(bleed)
        back_panel_content  == FoldedBackContent(back_image_data, back_image_type)
        inside              == InsideContent(inside_image_data, inside_image_type)
        inside_left_content   == inside[1]
        inside_right_content  == inside[2]
        inside_fold_indicator == inside[3]
    IN  [ template |-> "folded",
          prince_pdf_block |-> get_prince_pdf_css(s),
          page_rule |-> [ size_width |-> In(spread_width),
                          size_height |-> In(spread_height),
                          margin |-> 0,
                          bleed |-> In(bleed),
                          marks |-> marks ],
          rules |-> FoldedRules(spread_width, spread_height, total_spread_width,
                                total_spread_height, bleed, fit_mode, bg_color),
          body |-> FoldedBody(Img(image_type, image_data, "Front Cover", ""),
                              back_panel_content, inside_left_content,
                              inside_right_content, inside_fold_indicator) ]

\* dict.get(key, {}).get(field)
GetIn(dict, key, field) == IF key \in DOMAIN dict THEN Some(dict[key][field]) ELSE None

generate_html_for_image(image_data, image_type, s, additional_images) ==
    LET card_type   == Get(s, "card_type", "flat")
        back_data   == GetIn(additional_images, "back", "data")
        back_type   == GetIn(additional_images, "back", "type")
        inside_data == GetIn(additional_images, "inside", "data")
        inside_type == GetIn(additional_images, "inside", "type")
    IN  IF card_type = "folded"
        THEN generate_folded_card_html(image_data, image_type, s, inside_data,
                                       inside_type, back_data, back_type)
        ELSE generate_flat_card_html(image_data, image_type, s, back_data, back_type)

----------------------------------------------------------------------------
(* The rendering backend call: create_pdf *)

css_dpi == 300

EmptyDict == <<>>

prince_options(s) ==
    ("css_dpi" :> css_dpi)
    @@ (IF Get(s, "pdf_profile", "PDF/X-4") # ""
        THEN "profile" :> Get(s, "pdf_profile", "PDF/X-4") ELSE EmptyDict)
    @@ (IF "pdf_version" \in DOMAIN s THEN "pdf_version" :> s["pdf_version"]
        ELSE EmptyDict)
    @@ (IF Get(s, "force_cmyk", FALSE) THEN "force_identity_encoding" :> FALSE
        ELSE EmptyDict)

\* doc_params of create_pdf; prince_options always holds css_dpi
doc_params(html_content, s) ==
    [ name |-> "docraptor-test.pdf",
      document_type |-> "pdf",
      document_content |-> html_content,
      test |-> Get(s, "test_mode", TRUE),
      prince_options |-> prince_options(s) ]

----------------------------------------------------------------------------
(* The request handlers *)

\* werkzeug's secure_filename on the names of the model: it ends with
\* strip("._"), so leading and trailing dots and underscores go, and the
\* name that holds nothing else becomes the empty name
RECURSIVE secure_filename(_)
secure_filename(name) ==
    IF Len(name) > 1 /\ name[1] \in {"", "_"} THEN secure_filename(Tail(name))
    ELSE IF Len(name) > 1 /\ Last(name) \in {"", "_"}
         THEN secure_filename(SubSeq(name, 1, Len(name) - 1))
         ELSE IF name = <<"_">> THEN <<"">> ELSE name

\* save_icc_profile(file): the store after it and the name returned (or None)
save_icc_profile(store, file) ==
    IF file.filename # <<"">> /\ EndsWithIcc(file.filename)
    THEN LET filename == secure_filename(file.filename)
         IN  [ store |-> [n \in DOMAIN store \cup {filename} |->
                             IF n = filename THEN file.data ELSE store[n]],
               filename |-> Some(filename) ]
    ELSE [store |-> store, filename |-> None]

\* request.form.get(key) == value
FormIs(form, key, value) == key \in DOMAIN form /\ form[key] = value

\* str.strip() on the API keys of the model
Strip(s) == IF s = "  " THEN "" ELSE s

JsonError(status, message) ==
    [ status |-> status, mimetype |-> "application/json", error |-> message,
      html |-> <<>>, body |-> <<>>, download_name |-> "" ]

\* The extension rule of lines 754-756: lower-cased, jpg becomes jpeg
ImageType(filename) ==
    IF Lower(Last(filename)) = "jpg" THEN "jpeg" ELSE Lower(Last(filename))

ReadImage(file) == [data |-> b64encode(file.data), type |-> ImageType(file.filename)]

\* Lines 759-782 (and 863-886): the optional back and inside images
AdditionalImages(form, files) ==
    LET provide_all == FormIs(form, "provide_all_images", "true")
        card_type   == Get(form, "card_type", "flat")
    IN  (IF /\ provide_all
            /\ "back_image" \in DOMAIN files
            /\ files["back_image"].filename # <<"">>
            /\ allowed_file(files["back_image"].filename)
         THEN "back" :> ReadImage(files["back_image"]) ELSE EmptyDict)
        @@
        (IF /\ provide_all
            /\ card_type = "folded"
            /\ "inside_image" \in DOMAIN files
            /\ files["inside_image"].filename # <<"">>
            /\ allowed_file(files["inside_image"].filename)
         THEN "inside" :> ReadImage(files["inside_image"]) ELSE EmptyDict)

\* Lines 736-750 (and 846-854): the response that rejects the request, if any
ImageError(files) ==
    IF "image" \notin DOMAIN files
    THEN <<JsonError(400, "No image file provided")>>
    ELSE IF files["image"].filename = <<"">>
    THEN <<JsonError(400, "No image file selected")>>
    ELSE IF ~allowed_file(files["image"].filename)
    THEN <<JsonError(400, "Invalid file type")>>
    ELSE <<>>

\* Lines 784-801: the store after the upload, and icc_base64
GenerateIcc(store, form, files) ==
    LET uploads == /\ "icc_file" \in DOMAIN files
                   /\ files["icc_file"].filename # <<"">>
                   /\ EndsWithIcc(files["icc_file"].filename)
        saved   == IF uploads THEN save_icc_profile(store, files["icc_file"])
                   ELSE [store |-> store, filename |-> None]
        fresh   == IF saved.filename # None
                   THEN get_icc_profile_base64(saved.store, saved.filename[1])
                   ELSE None
        selected_profile == Get(form, "icc_profile", <<"">>)
    IN  [ store |-> saved.store,
          icc_base64 |->
              IF ~Truthy(fresh)
              THEN IF selected_profile # <<"">>
                   THEN get_icc_profile_base64(saved.store, selected_profile)
                   ELSE fresh
              ELSE fresh ]

\* Lines 804-815
GenerateSettings(form, icc_base64) ==
    [ card_type |-> Get(form, "card_type", "flat"),
      pdf_profile |-> Get(form, "pdf_profile", "PDF/X-4"),
      icc_base64 |-> icc_base64,
      add_bleed |-> FormIs(form, "add_bleed", "true"),
      use_true_black |-> FormIs(form, "use_true_black", "true"),
      use_cmyk_colors |-> FormIs(form, "use_cmyk_colors", "true"),
      force_cmyk |-> FormIs(form, "force_cmyk", "true"),
      image_fit |-> Get(form, "image_fit", "cover"),
      background_color |-> Get(form, "background_color", "#ffffff"),
      test_mode |-> FormIs(form, "test_mode", "true") ]

\* Mutant: /preview-html does not read use_true_black
PreviewSettings_NoTrueBlack(form, icc_base64) ==
    [ card_type |-> Get(form, "card_type", "flat"),
      pdf_profile |-> Get(form, "pdf_profile", "PDF/X-4"),
      icc_base64 |-> icc_base64,
      add_bleed |-> FormIs(form, "add_bleed", "true"),
      use_true_black |-> FALSE,
      use_cmyk_colors |-> FormIs(form, "use_cmyk_colors", "true"),
      image_fit |-> Get(form, "image_fit", "cover"),
      background_color |-> Get(form, "background_color", "#ffffff") ]

\* Lines 895-904
PreviewSettings(form, icc_base64) ==
    [ card_type |-> Get(form, "card_type", "flat"),
      pdf_profile |-> Get(form, "pdf_profile", "PDF/X-4"),
      icc_base64 |-> icc_base64,
      add_bleed |-> FormIs(form, "add_bleed", "true"),
      use_true_black |-> FormIs(form, "use_true_black", "true"),
      use_cmyk_colors |-> FormIs(form, "use_cmyk_colors", "true"),
      image_fit |-> Get(form, "image_fit", "cover"),
      background_color |-> Get(form, "background_color", "#ffffff") ]

\* f"output_{pdf_profile.replace('/', '-') if pdf_profile else 'default'}.pdf"
OutputFilename(pdf_profile) ==
    CASE pdf_profile = ""         -> "output_default.pdf"
      [] pdf_profile = "PDF/X-4"  -> "output_PDF-X-4.pdf"
      [] pdf_profile = "PDF/X-1a" -> "output_PDF-X-1a.pdf"
      [] pdf_profile = "PDF/X-3"  -> "output_PDF-X-3.pdf"
      [] pdf_profile = "PDF/A-1a" -> "output_PDF-A-1a.pdf"
      [] pdf_profile = "PDF/A-1b" -> "output_PDF-A-1b.pdf"
      [] pdf_profile = "PDF/A-3a" -> "output_PDF-A-3a.pdf"
      [] pdf_profile = "PDF/A-3b" -> "output_PDF-A-3b.pdf"
      [] pdf_profile = "PDF/UA-1" -> "output_PDF-UA-1.pdf"
      [] OTHER -> "output_" \o pdf_profile \o ".pdf"

\* POST /generate.  outcome is what doc_api.create_doc does: it returns the
\* PDF bytes <<bytes>> or raises ApiException (<<>>).
generate_pdf(req, outcome) ==
    /\ request' = <<req>>
    /\ IF Strip(Get(req.form, "api_key", "")) = ""
       THEN /\ response' = <<JsonError(400, "DocRaptor API key is required")>>
            /\ UNCHANGED <<icc_profiles, settings, backend, upload_folder>>
       ELSE IF ImageError(req.files) # <<>>
       THEN /\ response' = ImageError(req.files)
            /\ UNCHANGED <<icc_profiles, settings, backend, upload_folder>>
       ELSE LET image == ReadImage(req.files["image"])
                additional_images == AdditionalImages(req.form, req.files)
                icc == GenerateIcc(icc_profiles, req.form, req.files)
                s == GenerateSettings(req.form, icc.icc_base64)
                html_content ==
                    generate_html_for_image(image.data, image.type, s,
                                            additional_images)
                output_filename == OutputFilename(s.pdf_profile)
            IN  /\ icc_profiles' = icc.store
                /\ settings' = <<s>>
                /\ backend' = <<doc_params(html_content, s)>>
                /\ IF outcome = <<>>
                   THEN /\ response' = <<JsonError(500, "DocRaptor API error")>>
                        /\ UNCHANGED upload_folder
                   ELSE /\ upload_folder' =
                              [f \in DOMAIN upload_folder \cup {output_filename} |->
                                  IF f = output_filename THEN outcome[1]
                                  ELSE upload_folder[f]]
                        /\ response' =
                              << [ status |-> 200,
                                   mimetype |-> "application/pdf",
                                   error |-> "",
                                   html |-> <<>>,
                                   body |-> upload_folder'[output_filename],
                                   download_name |-> output_filename ] >>

\* POST /preview-html
preview_html(req) ==
    /\ request' = <<req>>
    /\ UNCHANGED <<icc_profiles, backend, upload_folder>>
    /\ IF ImageError(req.files) # <<>>
       THEN /\ response' = ImageError(req.files)
            /\ UNCHANGED settings
       ELSE LET image == ReadImage(req.files["image"])
                additional_images == AdditionalImages(req.form, req.files)
                selected_profile == Get(req.form, "icc_profile", <<"">>)
                icc_base64 == IF selected_profile # <<"">>
                              THEN get_icc_profile_base64(icc_profiles, selected_profile)
                              ELSE None
                s == PreviewSettings(req.form, icc_base64)
                html_content ==
                    generate_html_for_image(image.data, image.type, s,
                                            additional_images)
            IN  /\ settings' = <<s>>
                /\ response' = << [ status |-> 200,
                                    mimetype |-> "application/json",
                                    error |-> "",
                                    html |-> <<html_content>>,
                                    body |-> <<>>,
                                    download_name |-> "" ] >>

\* get_available_icc_profiles(): the files of the store whose name ends in
\* .icc (the model keeps the set of names and leaves out the sort)
get_available_icc_profiles(store) == {n \in DOMAIN store : EndsWithIcc(n)}

JsonSuccess(profiles) ==
    [ status |-> 200, mimetype |-> "application/json", error |-> "",
      html |-> <<>>, body |-> <<>>, download_name |-> "", profiles |-> profiles ]

\* An exception no handler catches: Flask answers 500
InternalServerError ==
    [ status |-> 500, mimetype |-> "text/html", error |-> "Internal Server Error",
      html |-> <<>>, body |-> <<>>, download_name |-> "" ]

\* POST /api/icc-profiles
upload_icc_profile(req) ==
    /\ request' = <<req>>
    /\ UNCHANGED <<settings, backend, upload_folder>>
    /\ IF "icc_file" \notin DOMAIN req.files
       THEN /\ response' = <<JsonError(400, "No ICC file provided")>>
            /\ UNCHANGED icc_profiles
       ELSE IF req.files["icc_file"].filename = <<"">>
       THEN /\ response' = <<JsonError(400, "No file selected")>>
            /\ UNCHANGED icc_profiles
       ELSE IF ~EndsWithIcc(req.files["icc_file"].filename)
       THEN /\ response' = <<JsonError(400, "File must have .icc extension")>>
            /\ UNCHANGED icc_profiles
       ELSE LET saved == save_icc_profile(icc_profiles, req.files["icc_file"])
            IN  /\ icc_profiles' = saved.store
                /\ response' =
                     IF saved.filename # None
                     THEN <<JsonSuccess(get_available_icc_profiles(saved.store))>>
                     ELSE <<JsonError(500, "Failed to save ICC profile")>>

\* os.path.exists(os.path.join(ICC_PROFILES_DIR, key)): the empty key is the
\* directory itself, which line 24 created
PathExists(store, key) == key = <<"">> \/ key \in DOMAIN store

\* DELETE /api/icc-profiles/<filename>.  os.remove raises OSError on a
\* directory, and the handler does not catch it.
delete_icc_profile(req) ==
    LET key == secure_filename(req.filename)
    IN  /\ request' = <<req>>
        /\ UNCHANGED <<settings, backend, upload_folder>>
        /\ IF PathExists(icc_profiles, key)
           THEN IF key = <<"">>
                THEN /\ response' = <<InternalServerError>>
                     /\ UNCHANGED icc_profiles
                ELSE /\ icc_profiles' =
                          [n \in DOMAIN icc_profiles \ {key} |-> icc_profiles[n]]
                     /\ response' =
                          <<JsonSuccess(get_available_icc_profiles(icc_profiles'))>>
           ELSE /\ response' = <<JsonError(404, "Profile not found")>>
                /\ UNCHANGED icc_profiles

----------------------------------------------------------------------------
(* The requests of the model *)

File(filename, data) == [filename |-> filename, data |-> data]

\* A multipart field that may be missing: no entry, or one entry per value
Optional(key, values) == {EmptyDict} \cup {key :> v : v \in values}

ImgSample == <<137, 80, 78, 71>>
\* Image files: the prefixes of ImgSample up to MaxImgLen bytes
ImgBlobs == {SubSeq(ImgSample, 1, n) : n \in 0..MaxImgLen}

IccSamples == {<<0, 1, 254, 3, 77>>, <<255, 250, 16, 131, 9>>}
\* ICC files: the prefixes of the samples up to MaxIccLen bytes
IccBlobs == {SubSeq(b, 1, n) : b \in IccSamples, n \in 0..MaxIccLen}

\* What doc_api.create_doc does: raise ApiException, or return PDF bytes
BackendOutcomes == {<<>>, << <<37, 80, 68, 70>> >>}

\* Front images the handlers accept and reject
ValidFront ==
    {"image" :> File(<<"front", "png">>, SubSeq(ImgSample, 1, MaxImgLen)),
     "image" :> File(<<"front", "JPG">>, <<255, 216>>)}
InvalidFront ==
    Optional("image", {File(<<"">>, <<>>), File(<<"front">>, <<137>>),
                       File(<<"front", "exe">>, <<137>>)})

GoodBack == File(<<"back", "jpg">>, <<255, 216>>)
GoodInside == File(<<"inside", "gif">>, <<71, 73>>)

\* Files a handler does not take as an image: no name, a disallowed
\* extension; and image files of every length, the empty one included
OddFiles(stem) ==
    {File(<<"">>, <<>>), File(<<stem, "exe">>, <<137>>)}
    \cup {File(<<stem, "PNG">>, b) : b \in ImgBlobs}

\* With provide_all_images 'true': a back image or none with an inside
\* image or none, and each odd file in either place; without the flag, the
\* files are sent all the same
ImageFields ==
    {("provide_all_images" :> "true") @@ b @@ i :
        b \in Optional("back_image", {GoodBack}),
        i \in Optional("inside_image", {GoodInside})}
    \cup {("provide_all_images" :> "true") @@ b @@ i :
        b \in Optional("back_image", OddFiles("back")) \ {EmptyDict},
        i \in Optional("inside_image", {GoodInside})}
    \cup {("provide_all_images" :> "true") @@ b @@ i :
        b \in Optional("back_image", {GoodBack}),
        i \in Optional("inside_image", OddFiles("inside")) \ {EmptyDict}}
    \cup {[ provide_all_images |-> "false", back_image |-> GoodBack,
            inside_image |-> GoodInside ],
          [ back_image |-> GoodBack, inside_image |-> GoodInside ]}

CardTypes == Optional("card_type", {"flat", "folded", "postcard"})
PdfProfiles == Optional("pdf_profile", {"", "PDF/X-1a"})
Flag(key) == Optional(key, {"true"})
\* Only the string 'true' sets a flag
OddFlag(key) == Optional(key, {"true", "True"})
\* The fields no layout decision reads, all missing or all set
OtherFields ==
    {EmptyDict,
     [ force_cmyk |-> "true", test_mode |-> "true", image_fit |-> "contain",
       background_color |-> "#000000" ]}

KnownProfile == <<"sRGB", "icc">>

\* The fields of a request split in the form and the files
FormOf(fields) ==
    [k \in DOMAIN fields \ {"image", "back_image", "inside_image", "icc_file"}
        |-> fields[k]]
FilesOf(fields) ==
    [k \in DOMAIN fields \cap {"image", "back_image", "inside_image", "icc_file"}
        |-> fields[k]]
Request(route, fields) ==
    [route |-> route, form |-> FormOf(fields), files |-> FilesOf(fields)]

\* Requests that vary the layout: every image, card type, PDF profile and
\* bleed setting
LayoutFields ==
    {f @@ im @@ ct @@ pp @@ bl @@ ot :
        f \in ValidFront, im \in ImageFields, ct \in CardTypes,
        pp \in PdfProfiles, bl \in Flag("add_bleed"), ot \in OtherFields}

\* icc_file uploads: ICC files of every length under two names, and files
\* save_icc_profile does not take
IccUploads ==
    Optional("icc_file",
             {File(<<"">>, <<0, 1>>), File(<<"profile", "txt">>, <<0, 1>>)}
             \cup {File(<<"sRGB", "icc">>, b) : b \in IccBlobs}
             \cup {File(<<"Press", "ICC">>, b) : b \in IccBlobs})

\* Requests that vary the ICC profile: every upload and selected name, with
\* every PDF profile and colour flag, on one flat and one folded layout
IccFields ==
    {f @@ ct @@ pp @@ tb @@ cm @@ up @@ ic :
        f \in {"image" :> File(<<"front", "png">>, SubSeq(ImgSample, 1, MaxImgLen))},
        ct \in Optional("card_type", {"folded"}),
        pp \in PdfProfiles,
        tb \in OddFlag("use_true_black"), cm \in Flag("use_cmyk_colors"),
        up \in IccUploads,
        ic \in Optional("icc_profile",
                        {<<"">>, <<"sRGB">>, <<"sRGB", "icc">>, <<"missing">>})}

\* Requests the handlers reject before assembly
RejectedFields ==
    {f @@ ct : f \in InvalidFront, ct \in CardTypes}

ApiKeys == Optional("api_key", {"", "  "})

----------------------------------------------------------------------------
(* The specification: the server answers one request, from a store that   *)
(* holds no profile or one                                                *)

InitialStores ==
    {EmptyDict, KnownProfile :> <<0, 1>>}

Init ==
    /\ icc_profiles \in InitialStores
    /\ request = <<>>
    /\ settings = <<>>
    /\ backend = <<>>
    /\ upload_folder = EmptyDict
    /\ response = <<>>
    /\ threads = EmptyDict

Generate ==
    /\ request = <<>>
    /\ UNCHANGED threads
    /\ \E fields \in LayoutFields \cup IccFields \cup RejectedFields,
          outcome \in BackendOutcomes :
          generate_pdf(Request("/generate", ("api_key" :> "key") @@ fields), outcome)

GenerateNoKey ==
    /\ request = <<>>
    /\ UNCHANGED threads
    /\ \E key \in ApiKeys, fields \in RejectedFields \cup ValidFront :
          generate_pdf(Request("/generate", key @@ fields), <<>>)

Preview ==
    /\ request = <<>>
    /\ UNCHANGED threads
    /\ \E fields \in LayoutFields \cup IccFields \cup RejectedFields :
          preview_html(Request("/preview-html", fields))

Next == Generate \/ GenerateNoKey \/ Preview

Spec == Init /\ [][Next]_vars

----------------------------------------------------------------------------
(* The store specification: the server answers one request after another, *)
(* uploads and deletes of ICC profiles among them                         *)

StoreBlobs == {<<0, 1>>, <<255, 250, 16>>}

\* Uploads to POST /api/icc-profiles: no file, files the handler refuses,
\* and ICC files under two names, one of them '_.icc'
StoreUploads ==
    Optional("icc_file",
             {File(<<"">>, <<0, 1>>), File(<<"profile", "txt">>, <<0, 1>>)}
             \cup {File(n, b) : n \in {<<"sRGB", "icc">>, <<"_", "icc">>},
                                b \in StoreBlobs})

\* Names sent to DELETE /api/icc-profiles/<filename>
DeleteNames ==
    {<<"sRGB", "icc">>, <<"missing", "icc">>, <<"icc">>, <<"sRGB">>, <<"_">>}

\* Requests that select a stored profile by name
NamedFields ==
    {f @@ ic :
        f \in {[image |-> File(<<"front", "png">>, <<137>>), card_type |-> "folded"]},
        ic \in Optional("icc_profile",
                        {<<"">>, <<"sRGB">>, <<"sRGB", "icc">>, <<"missing">>,
                         <<"icc">>})}

StoreUpload ==
    /\ UNCHANGED threads
    /\ \E up \in StoreUploads :
          upload_icc_profile([route |-> "/api/icc-profiles", form |-> EmptyDict,
                              files |-> up])

StoreDelete ==
    /\ UNCHANGED threads
    /\ \E name \in DeleteNames :
          delete_icc_profile([route |-> "/api/icc-profiles/<filename>",
                              form |-> EmptyDict, files |-> EmptyDict,
                              filename |-> name])

StoreGenerate ==
    /\ UNCHANGED threads
    /\ \E fields \in NamedFields, outcome \in BackendOutcomes :
          generate_pdf(Request("/generate", ("api_key" :> "key") @@ fields), outcome)

StorePreview ==
    /\ UNCHANGED threads
    /\ \E fields \in NamedFields :
          preview_html(Request("/preview-html", fields))

NextStore == StoreUpload \/ StoreDelete \/ StoreGenerate \/ StorePreview

SpecStore == Init /\ [][NextStore]_vars

----------------------------------------------------------------------------
(* The concurrent specification: the server runs generate_pdf for several *)
(* requests at once, one thread each.  A thread takes a step at every     *)
(* access to the ICC profile directory, the rendering backend and the     *)
(* upload folder; what lies between two accesses touches only its locals. *)
(* open(path, 'wb') leaves an empty file until the bytes are written.     *)

\* Threads serving /generate at the same time
NThreads == 2
Threads == 1..NThreads

\* The PDF the backend returns for a document: it is decided by doc_params
RenderedPdf(params) == <<"%PDF", params>>

\* The requests the threads serve: a flat card under two PDF profiles, with
\* an ICC upload, a selected profile, both or none; and one request without
\* an image
ConcFields ==
    {EmptyDict}
    \cup {f @@ pp @@ up @@ ic :
            f \in {"image" :> File(<<"front", "png">>, <<137>>)},
            pp \in Optional("pdf_profile", {""}),
            up \in Optional("icc_file",
                            {File(<<"sRGB", "icc">>, <<255, 250, 16>>),
                             File(<<"_", "icc">>, <<0, 1>>)}),
            ic \in Optional("icc_profile", {<<"sRGB">>})}

\* A thread before its first step
NewThread(req) ==
    [ pc |-> "start", req |-> req, saved_filename |-> None, icc_base64 |-> None,
      backend |-> <<>>, pdf_content |-> None, response |-> <<>> ]

\* Thread t goes on with these locals changed
Goto(t, changed) ==
    threads' = [threads EXCEPT ![t] =
                   [k \in DOMAIN threads[t] |->
                       IF k \in DOMAIN changed THEN changed[k] ELSE threads[t][k]]]

\* A file of a directory written
WriteFile(dir, name, data) ==
    [n \in DOMAIN dir \cup {name} |-> IF n = name THEN data ELSE dir[n]]

InitConc ==
    /\ icc_profiles = KnownProfile :> <<0, 1>>
    /\ request = <<>>
    /\ settings = <<>>
    /\ backend = <<>>
    /\ upload_folder = EmptyDict
    /\ response = <<>>
    /\ threads \in [Threads ->
                     {NewThread(Request("/generate", ("api_key" :> "key") @@ f)) :
                         f \in ConcFields}]

\* Lines 736-782: the API key, the front image, the additional images
ConcValidate(t) ==
    /\ threads[t].pc = "start"
    /\ UNCHANGED <<icc_profiles, request, settings, backend, upload_folder, response>>
    /\ LET req == threads[t].req
       IN  IF Strip(Get(req.form, "api_key", "")) = ""
           THEN Goto(t, [pc |-> "done",
                         response |-> <<JsonError(400, "DocRaptor API key is required")>>])
           ELSE IF ImageError(req.files) # <<>>
           THEN Goto(t, [pc |-> "done", response |-> ImageError(req.files)])
           ELSE Goto(t, [pc |-> "icc_file"])

\* Lines 787-792 and 42-45: save_icc_profile opens the file of the upload
ConcSaveOpen(t) ==
    /\ threads[t].pc = "icc_file"
    /\ UNCHANGED <<request, settings, backend, upload_folder, response>>
    /\ LET files == threads[t].req.files
       IN  IF /\ "icc_file" \in DOMAIN files
              /\ files["icc_file"].filename # <<"">>
              /\ EndsWithIcc(files["icc_file"].filename)
           THEN /\ icc_profiles' =
                      WriteFile(icc_profiles,
                                secure_filename(files["icc_file"].filename), <<>>)
                /\ Goto(t, [pc |-> "icc_save"])
           ELSE /\ UNCHANGED icc_profiles
                /\ Goto(t, [pc |-> "icc_profile"])

\* Lines 45-46: file.save writes the bytes; save_icc_profile returns the name
ConcSaveWrite(t) ==
    /\ threads[t].pc = "icc_save"
    /\ UNCHANGED <<request, settings, backend, upload_folder, response>>
    /\ LET file == threads[t].req.files["icc_file"]
           filename == secure_filename(file.filename)
       IN  /\ icc_profiles' = WriteFile(icc_profiles, filename, file.data)
           /\ Goto(t, [pc |-> "read_back", saved_filename |-> Some(filename)])

\* Lines 793-795 and 52-60: get_icc_profile_base64(saved_filename) up to
\* os.path.exists
ConcReadBackExists(t) ==
    /\ threads[t].pc = "read_back"
    /\ UNCHANGED <<icc_profiles, request, settings, backend, upload_folder, response>>
    /\ IF ProfilePath(threads[t].saved_filename[1]) \in DOMAIN icc_profiles
       THEN Goto(t, [pc |-> "read_back_open"])
       ELSE Goto(t, [pc |-> "icc_profile", icc_base64 |-> None])

\* Lines 61-62: the file is opened and read; open raises when it is gone
ConcReadBackOpen(t) ==
    /\ threads[t].pc = "read_back_open"
    /\ UNCHANGED <<icc_profiles, request, settings, backend, upload_folder, response>>
    /\ LET path == ProfilePath(threads[t].saved_filename[1])
       IN  IF path \in DOMAIN icc_profiles
           THEN Goto(t, [pc |-> "icc_profile",
                         icc_base64 |-> Some(b64encode(icc_profiles[path]))])
           ELSE Goto(t, [pc |-> "done", response |-> <<InternalServerError>>])

\* Lines 798-801 and 52-60: without bytes from an upload, the selected
\* profile is looked up
ConcSelectedExists(t) ==
    /\ threads[t].pc = "icc_profile"
    /\ UNCHANGED <<icc_profiles, request, settings, backend, upload_folder, response>>
    /\ LET selected_profile == Get(threads[t].req.form, "icc_profile", <<"">>)
       IN  IF ~Truthy(threads[t].icc_base64) /\ selected_profile # <<"">>
           THEN IF ProfilePath(selected_profile) \in DOMAIN icc_profiles
                THEN Goto(t, [pc |-> "icc_profile_open"])
                ELSE Goto(t, [pc |-> "create_pdf", icc_base64 |-> None])
           ELSE Goto(t, [pc |-> "create_pdf"])

\* Lines 61-62 for the selected profile
ConcSelectedOpen(t) ==
    /\ threads[t].pc = "icc_profile_open"
    /\ UNCHANGED <<icc_profiles, request, settings, backend, upload_folder, response>>
    /\ LET path == ProfilePath(threads[t].req.form["icc_profile"])
       IN  IF path \in DOMAIN icc_profiles
           THEN Goto(t, [pc |-> "create_pdf",
                         icc_base64 |-> Some(b64encode(icc_profiles[path]))])
           ELSE Goto(t, [pc |-> "done", response |-> <<InternalServerError>>])

\* Lines 804-824: the settings, the markup and the call of the backend,
\* which returns the PDF of the document or raises ApiException
ConcCreatePdf(t) ==
    /\ threads[t].pc = "create_pdf"
    /\ UNCHANGED <<icc_profiles, request, settings, backend, upload_folder, response>>
    /\ LET req == threads[t].req
           image == ReadImage(req.files["image"])
           s == GenerateSettings(req.form, threads[t].icc_base64)
           html_content ==
               generate_html_for_image(image.data, image.type, s,
                                       AdditionalImages(req.form, req.files))
           params == doc_params(html_content, s)
       IN  \/ Goto(t, [pc |-> "temp_path", backend |-> <<params>>,
                       pdf_content |-> Some(RenderedPdf(params))])
           \/ Goto(t, [pc |-> "done", backend |-> <<params>>,
                       response |-> <<JsonError(500, "DocRaptor API error")>>])

\* The temp file of a thread: lines 827-828
TempPath(t) == OutputFilename(Get(threads[t].req.form, "pdf_profile", "PDF/X-4"))

\* Line 830: open(temp_path, 'wb')
ConcTempOpen(t) ==
    /\ threads[t].pc = "temp_path"
    /\ UNCHANGED <<icc_profiles, request, settings, backend, response>>
    /\ upload_folder' = WriteFile(upload_folder, TempPath(t), <<>>)
    /\ Goto(t, [pc |-> "temp_write"])

\* Line 831: f.write(pdf_content)
ConcTempWrite(t) ==
    /\ threads[t].pc = "temp_write"
    /\ UNCHANGED <<icc_profiles, request, settings, backend, response>>
    /\ upload_folder' = WriteFile(upload_folder, TempPath(t), threads[t].pdf_content[1])
    /\ Goto(t, [pc |-> "send_file"])

\* Lines 833-838: send_file answers with what temp_path holds
ConcSendFile(t) ==
    /\ threads[t].pc = "send_file"
    /\ UNCHANGED <<icc_profiles, request, settings, backend, upload_folder, response>>
    /\ Goto(t, [pc |-> "done",
                response |-> << [ status |-> 200, mimetype |-> "application/pdf",
                                  error |-> "", html |-> <<>>,
                                  body |-> upload_folder[TempPath(t)],
                                  download_name |-> TempPath(t) ] >>])

\* Another client deletes a profile while the threads run
ConcDelete ==
    /\ \E t \in Threads : threads[t].pc # "done"
    /\ UNCHANGED threads
    /\ delete_icc_profile([route |-> "/api/icc-profiles/<filename>",
                           form |-> EmptyDict, files |-> EmptyDict,
                           filename |-> <<"sRGB", "icc">>])

NextConc ==
    \/ \E t \in Threads :
          \/ ConcValidate(t)
          \/ ConcSaveOpen(t)
          \/ ConcSaveWrite(t)
          \/ ConcReadBackExists(t)
          \/ ConcReadBackOpen(t)
          \/ ConcSelectedExists(t)
          \/ ConcSelectedOpen(t)
          \/ ConcCreatePdf(t)
          \/ ConcTempOpen(t)
          \/ ConcTempWrite(t)
          \/ ConcSendFile(t)
    \/ ConcDelete

SpecConc == InitConc /\ [][NextConc]_vars

----------------------------------------------------------------------------
(* The repeated-request specification: a client sends the same form       *)
(* fields and files again and again, to /generate and to /preview-html in *)
(* any order                                                              *)

\* Requests for one flat card: with an ICC upload, a selected profile, both
\* or none; with the colour flag both routes read and the settings only
\* /generate reads (force_cmyk, test_mode) sent or not; and one request
\* without an image
TwiceFields ==
    {"api_key" :> "key"}
    \cup {("api_key" :> "key") @@ f @@ up @@ ic @@ ot :
            f \in {"image" :> File(<<"front", "png">>, <<137>>)},
            up \in Optional("icc_file",
                            {File(<<"profile", "txt">>, <<0, 1>>),
                             File(<<"sRGB", "icc">>, <<0, 1>>),
                             File(<<"sRGB", "icc">>, <<255, 250, 16>>)}),
            ic \in Optional("icc_profile", {<<"sRGB">>, <<"missing">>}),
            ot \in {EmptyDict,
                    [use_true_black |-> "true", force_cmyk |-> "true",
                     test_mode |-> "true"]}}

\* The fields are those of the request answered before, if there is one
SentBefore(fields) ==
    IF request = <<>> THEN TRUE
    ELSE /\ request[1].form = FormOf(fields)
         /\ request[1].files = FilesOf(fields)

TwiceGenerate ==
    /\ UNCHANGED threads
    /\ \E fields \in TwiceFields, outcome \in BackendOutcomes :
          /\ SentBefore(fields)
          /\ generate_pdf(Request("/generate", fields), outcome)

TwicePreview ==
    /\ UNCHANGED threads
    /\ \E fields \in TwiceFields :
          /\ SentBefore(fields)
          /\ preview_html(Request("/preview-html", fields))

NextTwice == TwiceGenerate \/ TwicePreview

SpecTwice == Init /\ [][NextTwice]_vars

----------------------------------------------------------------------------
(* Reading a state: the request, the settings and the assembled document  *)

\* A document was assembled: /generate handed it to the backend,
\* /preview-html returned it
HasDoc ==
    \/ Len(backend) > 0
    \/ Len(response) > 0 /\ Len(response[1].html) > 0

TheDoc ==
    IF Len(backend) > 0 THEN backend[1].document_content
    ELSE response[1].html[1]

\* Base64 text back to bytes (RFC 4648), the inverse the backend applies
B64Index(c) == CHOOSE i \in 0..63 : B64Alphabet[i + 1] = c

B64Quad(q) ==
    LET v(i) == IF q[i] = "=" THEN 0 ELSE B64Index(q[i])
        n == v(1) * 262144 + v(2) * 4096 + v(3) * 64 + v(4)
    IN  IF q[3] = "=" THEN << n \div 65536 >>
        ELSE IF q[4] = "=" THEN << n \div 65536, (n \div 256) % 256 >>
        ELSE << n \div 65536, (n \div 256) % 256, n % 256 >>

RECURSIVE B64Decode(_)
B64Decode(text) ==
    IF Len(text) < 4 THEN <<>>
    ELSE B64Quad(SubSeq(text, 1, 4)) \o B64Decode(SubSeq(text, 5, Len(text)))

\* The MIME type a data URI must name for a file of this extension
MimeOf(filename) ==
    CASE Lower(Last(filename)) \in {"jpg", "jpeg"} -> "image/jpeg"
      [] Lower(Last(filename)) = "png" -> "image/png"
      [] Lower(Last(filename)) = "gif" -> "image/gif"
      [] OTHER -> "image/other"

\* The request supplies this optional image: the provide-all flag is set and
\* the file has an allowed extension and at least one byte
Supplied(field) ==
    /\ FormIs(request[1].form, "provide_all_images", "true")
    /\ field \in DOMAIN request[1].files
    /\ allowed_file(request[1].files[field].filename)
    /\ request[1].files[field].data # <<>>

IsFolded == settings[1].card_type = "folded"

\* The content box of page or spread i, and the content of panel j of spread i
ContentBox(d, i) == d.body[i].children[1]
PanelContent(d, i, j) == ContentBox(d, i).children[j].children[1].children[1]
PageContent(d, i) == ContentBox(d, i).children[1]

\* The rule of the style sheet for a class
RulesFor(d, cls) ==
    {k \in 1..Len(d.rules) : d.rules[k].cls = cls /\ d.rules[k].pseudo = ""}

----------------------------------------------------------------------------
(* C1 *)

\* C1: in every assembled document, flat or folded, the @page rule has
\* bleed 0.125in and marks crop when add_bleed is true, bleed 0 and marks
\* none when it is false; marks is crop exactly when the bleed is positive.
C1_BleedAndMarks ==
    HasDoc =>
        LET page == TheDoc.page_rule
        IN  /\ settings[1].add_bleed =>
                  page.bleed = [val |-> 125, unit |-> "in"] /\ page.marks = "crop"
            /\ ~settings[1].add_bleed =>
                  page.bleed = [val |-> 0, unit |-> "in"] /\ page.marks = "none"
            /\ page.marks \in {"crop", "none"}
            /\ page.marks = "crop" <=> page.bleed.val > 0

C1_Witness ==
    /\ HasDoc
    /\ IsFolded
    /\ settings[1].add_bleed
    /\ TheDoc.page_rule.marks = "crop"

----------------------------------------------------------------------------
(* C2 *)

\* C2: the declared page size is the trim size (4.75in x 6.75in flat,
\* 9.5in x 6.75in folded) whatever add_bleed is; every page or spread has a
\* content box whose rule sizes it trim + 2*bleed on each axis (5.0in x 7.0in
\* flat and 9.75in x 7.0in folded with bleed) and offsets it by minus the
\* bleed on top and left.
C2_TrimAndTotal ==
    HasDoc =>
        LET d == TheDoc
            b == IF settings[1].add_bleed THEN 125 ELSE 0
            trim_w == IF IsFolded THEN 9500 ELSE 4750
            trim_h == 6750
            total_w == IF ~settings[1].add_bleed THEN trim_w
                       ELSE IF IsFolded THEN 9750 ELSE 5000
            total_h == IF settings[1].add_bleed THEN 7000 ELSE trim_h
        IN  /\ d.page_rule.size_width = [val |-> trim_w, unit |-> "in"]
            /\ d.page_rule.size_height = [val |-> trim_h, unit |-> "in"]
            /\ total_w = trim_w + 2 * b /\ total_h = trim_h + 2 * b
            /\ \A i \in 1..Len(d.body) :
                  /\ ContentBox(d, i).cls
                        \in {"page-content", "back-page-content", "spread-content"}
                  /\ Cardinality(RulesFor(d, ContentBox(d, i).cls)) = 1
                  /\ \A k \in RulesFor(d, ContentBox(d, i).cls) :
                        /\ d.rules[k].decls.width = [val |-> total_w, unit |-> "in"]
                        /\ d.rules[k].decls.height = [val |-> total_h, unit |-> "in"]
                        /\ d.rules[k].decls.top = [val |-> -b, unit |-> "in"]
                        /\ d.rules[k].decls.left = [val |-> -b, unit |-> "in"]

C2_Witness ==
    /\ HasDoc
    /\ IsFolded
    /\ settings[1].add_bleed
    /\ \E k \in RulesFor(TheDoc, "spread-content") :
          TheDoc.rules[k].decls.width.val = 9750

----------------------------------------------------------------------------
(* C3 *)

\* C3: in a folded document, when the request supplies an inside image both
\* inside panels show that one image, positioned right on the left panel and
\* left on the right panel; when it supplies none, the left panel holds the
\* minimal placeholder and the right panel the pre-printed message
\* placeholder, two different fragments.
C3_InsidePanels ==
    HasDoc /\ IsFolded =>
        LET left  == PanelContent(TheDoc, 2, 1)
            right == PanelContent(TheDoc, 2, 2)
        IN  IF Supplied("inside_image")
            THEN LET file == request[1].files["inside_image"]
                 IN  /\ left.tag = "img" /\ right.tag = "img"
                     /\ B64Decode(left.data) = file.data
                     /\ B64Decode(right.data) = file.data
                     /\ left.mime = MimeOf(file.filename)
                     /\ right.mime = MimeOf(file.filename)
                     /\ left.style = "object-position: right center;"
                     /\ right.style = "object-position: left center;"
            ELSE /\ left.tag = "div" /\ right.tag = "div"
                 /\ left.frag = "INSIDE_LEFT_CONTENT" /\ left.message = ""
                 /\ right.frag = "INSIDE_RIGHT_CONTENT" /\ right.message # ""
                 /\ left # right

C3_Witness ==
    /\ HasDoc
    /\ IsFolded
    /\ Supplied("inside_image")
    /\ PanelContent(TheDoc, 2, 1).style = "object-position: right center;"

----------------------------------------------------------------------------
(* C4 *)

RECURSIVE CountClass(_, _)
\* How many elements of a class a sequence of elements holds, at any depth
CountClass(els, cls) ==
    IF els = <<>> THEN 0
    ELSE (IF els[1].cls = cls THEN 1 ELSE 0)
         + (IF "children" \in DOMAIN els[1] THEN CountClass(els[1].children, cls)
            ELSE 0)
         + CountClass(Tail(els), cls)

\* C4 as stated: a folded document holds a fold-guide indicator if and only
\* if the request supplies no inside image.
C4_AsStated ==
    HasDoc /\ IsFolded =>
        (CountClass(TheDoc.body, "fold-indicator") > 0
            <=> ~Supplied("inside_image"))

\* C4, amended: in a folded document the inside spread (Spread 2) holds a
\* fold-guide indicator if and only if the request supplies no inside image;
\* the outside spread (Spread 1) always holds one.
C4_InsideIndicator ==
    HasDoc /\ IsFolded =>
        /\ CountClass(<<TheDoc.body[2]>>, "fold-indicator")
              = (IF Supplied("inside_image") THEN 0 ELSE 1)
        /\ CountClass(<<TheDoc.body[1]>>, "fold-indicator") = 1

C4_Witness ==
    /\ HasDoc
    /\ IsFolded
    /\ Supplied("inside_image")
    /\ CountClass(<<TheDoc.body[2]>>, "fold-indicator") = 0
    /\ CountClass(TheDoc.body, "fold-indicator") = 1

----------------------------------------------------------------------------
(* C5, C6, C7: the colour-management block *)

BlockLines(d) ==
    IF d.prince_pdf_block = <<>> THEN <<>> ELSE d.prince_pdf_block[1].lines

IsProfileLine(l) == l.prop = "prince-pdf-profile"
IsColorOptionsLine(l) == l.prop = "prince-pdf-color-options"
IsOutputIntentLine(l) == l.prop = "prince-pdf-output-intent"

\* The ICC bytes the handler resolved for this request, <<>> if none
IccBytes ==
    IF settings[1].icc_base64 = <<>> THEN <<>>
    ELSE B64Decode(settings[1].icc_base64[1])

\* C5: the document has no @prince-pdf block exactly when pdf_profile is the
\* empty string, neither colour flag is set and no ICC bytes are available;
\* otherwise it has exactly one block, whose lines are the applicable ones:
\* the profile line, the colour-options line, the output-intent line.
C5_BlockIffSomeRule ==
    HasDoc =>
        LET s == settings[1]
            block == TheDoc.prince_pdf_block
            profile == s.pdf_profile # ""
            colors == s.use_true_black \/ s.use_cmyk_colors
            intent == IccBytes # <<>>
        IN  /\ block = <<>> <=> ~profile /\ ~colors /\ ~intent
            /\ Len(block) <= 1
            /\ \A i \in 1..Len(block) :
                  /\ block[i].at = "@prince-pdf"
                  /\ block[i].lines # <<>>
            /\ Len(SelectSeq(BlockLines(TheDoc), IsProfileLine))
                  = (IF profile THEN 1 ELSE 0)
            /\ Len(SelectSeq(BlockLines(TheDoc), IsColorOptionsLine))
                  = (IF colors THEN 1 ELSE 0)
            /\ Len(SelectSeq(BlockLines(TheDoc), IsOutputIntentLine))
                  = (IF intent THEN 1 ELSE 0)
            /\ Len(BlockLines(TheDoc))
                  = (IF profile THEN 1 ELSE 0) + (IF colors THEN 1 ELSE 0)
                    + (IF intent THEN 1 ELSE 0)
            /\ \A i \in 1..Len(BlockLines(TheDoc)) :
                  IsProfileLine(BlockLines(TheDoc)[i]) =>
                      BlockLines(TheDoc)[i].value = <<s.pdf_profile>>

C5_Witness ==
    /\ HasDoc
    /\ settings[1].pdf_profile = ""
    /\ ~settings[1].use_true_black
    /\ ~settings[1].use_cmyk_colors
    /\ IccBytes = <<>>
    /\ TheDoc.prince_pdf_block = <<>>

\* C6: the colour-options line lists use-true-black exactly when the
\* use_true_black field is 'true' and use-cmyk-colors exactly when the
\* use_cmyk_colors field is 'true', use-true-black first; there is no such
\* line when neither is set.
C6_ColorOptions ==
    HasDoc =>
        LET tb == FormIs(request[1].form, "use_true_black", "true")
            cm == FormIs(request[1].form, "use_cmyk_colors", "true")
            lines == SelectSeq(BlockLines(TheDoc), IsColorOptionsLine)
        IN  /\ settings[1].use_true_black = tb
            /\ settings[1].use_cmyk_colors = cm
            /\ Len(lines) = (IF tb \/ cm THEN 1 ELSE 0)
            /\ tb /\ cm => lines[1].value = <<"use-true-black", "use-cmyk-colors">>
            /\ tb /\ ~cm => lines[1].value = <<"use-true-black">>
            /\ ~tb /\ cm => lines[1].value = <<"use-cmyk-colors">>

C6_Witness ==
    /\ HasDoc
    /\ FormIs(request[1].form, "use_true_black", "true")
    /\ FormIs(request[1].form, "use_cmyk_colors", "true")
    /\ \E i \in 1..Len(BlockLines(TheDoc)) :
          BlockLines(TheDoc)[i].value = <<"use-true-black", "use-cmyk-colors">>

\* C7: the block has an output-intent line exactly when ICC bytes are
\* available, whatever pdf_profile is; the line is a data URI of type
\* application/vnd.iccprofile whose base64 payload is the bytes of a stored
\* profile; the options handed to the backend name no ICC profile.
C7_OutputIntentEmbedded ==
    HasDoc =>
        LET lines == SelectSeq(BlockLines(TheDoc), IsOutputIntentLine)
        IN  /\ Len(lines) = (IF IccBytes # <<>> THEN 1 ELSE 0)
            /\ \A i \in 1..Len(lines) :
                  LET payload == SubSeq(lines[i].value, 3, Len(lines[i].value))
                  IN  /\ lines[i].value[1] = "url"
                      /\ lines[i].value[2] = "data:application/vnd.iccprofile;base64,"
                      /\ B64Decode(payload) = IccBytes
                      /\ \E n \in DOMAIN icc_profiles :
                            B64Decode(payload) = icc_profiles[n]
                      /\ B64Decode(payload) = <<0, 1>> =>
                            payload = <<"A", "A", "E", "=">>
            /\ Len(backend) > 0 =>
                  /\ DOMAIN backend[1] = {"name", "document_type", "document_content",
                                          "test", "prince_options"}
                  /\ DOMAIN backend[1].prince_options
                        \subseteq {"css_dpi", "profile", "pdf_version",
                                   "force_identity_encoding"}

C7_Witness ==
    /\ Len(backend) > 0
    /\ settings[1].pdf_profile = "PDF/X-1a"
    /\ IccBytes = <<255, 250, 16>>
    /\ Len(SelectSeq(BlockLines(TheDoc), IsOutputIntentLine)) = 1

----------------------------------------------------------------------------
(* C8 *)

\* The rules that apply to child i of <body> and set page-break-after
BreakRules(d, i) ==
    {k \in 1..Len(d.rules) :
        /\ d.rules[k].cls = d.body[i].cls
        /\ d.rules[k].pseudo = "" \/ (d.rules[k].pseudo = "last-child" /\ i = Len(d.body))
        /\ "page_break_after" \in DOMAIN d.rules[k].decls}

\* The cascade: the most specific rule wins, the later one among equals
Wins(d, k, j) ==
    \/ (d.rules[k].pseudo # "") /\ (d.rules[j].pseudo = "")
    \/ ((d.rules[k].pseudo # "") = (d.rules[j].pseudo # "")) /\ k >= j

BreakAfter(d, i) ==
    IF BreakRules(d, i) = {} THEN "auto"
    ELSE LET k == CHOOSE k \in BreakRules(d, i) :
                      \A j \in BreakRules(d, i) : Wins(d, k, j)
         IN  d.rules[k].decls.page_break_after

\* C8: the document is two pages (flat) or two spreads (folded), with a
\* forced page break after the first and none after the last: N - 1 forced
\* breaks for N pages.
C8_PageBreaks ==
    HasDoc =>
        LET d == TheDoc
            N == Len(d.body)
        IN  /\ N = 2
            /\ \A i \in 1..N : d.body[i].cls = (IF IsFolded THEN "spread" ELSE "page")
            /\ \A i \in 1..(N - 1) : BreakAfter(d, i) = "always"
            /\ BreakAfter(d, N) = "avoid"
            /\ Cardinality({i \in 1..N : BreakAfter(d, i) = "always"}) = N - 1

C8_Witness ==
    /\ HasDoc
    /\ ~IsFolded
    /\ BreakAfter(TheDoc, 1) = "always"
    /\ BreakAfter(TheDoc, 2) = "avoid"

----------------------------------------------------------------------------
(* C9, C10: the panels *)

IsFrontImage(c) ==
    /\ c.tag = "img"
    /\ c.alt \in {"Card Front", "Front Cover"}
    /\ B64Decode(c.data) = request[1].files["image"].data
    /\ c.mime = MimeOf(request[1].files["image"].filename)

IsBackContent(c) ==
    IF Supplied("back_image")
    THEN /\ c.tag = "img"
         /\ c.alt \in {"Card Back", "Back Cover"}
         /\ B64Decode(c.data) = request[1].files["back_image"].data
    ELSE c.frag \in {"BACK_PANEL_CONTENT", "PANEL_4_CONTENT"}

IsInside(c, side) ==
    \/ c.tag = "img" /\ c.alt = "Inside " \o side
    \/ c.tag = "div" /\ c.frag = (IF side = "Left" THEN "INSIDE_LEFT_CONTENT"
                                  ELSE "INSIDE_RIGHT_CONTENT")

\* The request carries an inside file whose bytes are those of no other file
InsideBytesTellApart ==
    /\ "inside_image" \in DOMAIN request[1].files
    /\ request[1].files["inside_image"].data # <<>>
    /\ \A f \in DOMAIN request[1].files \ {"inside_image"} :
          request[1].files[f].data # request[1].files["inside_image"].data

\* C9: a flat document is the Front page then the Back page and holds no
\* inside panel, even when the request carries an inside image; a folded
\* document is the outside spread, Back on the left and Front on the right,
\* then the inside spread, InsideLeft on the left and InsideRight on the
\* right.
C9_PanelOrder ==
    HasDoc =>
        LET d == TheDoc
        IN  /\ Len(d.body) = 2
            /\ IF IsFolded
               THEN /\ \A i \in 1..2 : Len(ContentBox(d, i).children) = 2
                    /\ IsBackContent(PanelContent(d, 1, 1))
                    /\ IsFrontImage(PanelContent(d, 1, 2))
                    /\ IsInside(PanelContent(d, 2, 1), "Left")
                    /\ IsInside(PanelContent(d, 2, 2), "Right")
               ELSE /\ \A i \in 1..2 : Len(ContentBox(d, i).children) = 1
                    /\ IsFrontImage(PageContent(d, 1))
                    /\ IsBackContent(PageContent(d, 2))
                    /\ \A i \in 1..2 :
                          /\ ~IsInside(PageContent(d, i), "Left")
                          /\ ~IsInside(PageContent(d, i), "Right")
                          /\ InsideBytesTellApart =>
                                B64Decode(PageContent(d, i).data)
                                    # request[1].files["inside_image"].data

C9_Witness ==
    /\ HasDoc
    /\ settings[1].card_type = "flat"
    /\ FormIs(request[1].form, "provide_all_images", "true")
    /\ "inside_image" \in DOMAIN request[1].files
    /\ request[1].files["inside_image"].data = <<71, 73>>
    /\ InsideBytesTellApart
    /\ IsFrontImage(PageContent(TheDoc, 1))

\* C10: whatever the card type, the PDF profile and the inside image, the
\* Back panel shows the back image when the request supplies one, and
\* otherwise the back fragment of the card type: BACK_PANEL_CONTENT on a
\* flat card, PANEL_4_CONTENT with its 'Panel 4' caption on a folded one.
C10_BackPanel ==
    HasDoc =>
        LET back == IF IsFolded THEN PanelContent(TheDoc, 1, 1)
                    ELSE PageContent(TheDoc, 2)
        IN  IF Supplied("back_image")
            THEN /\ back.tag = "img"
                 /\ B64Decode(back.data) = request[1].files["back_image"].data
                 /\ back.mime = MimeOf(request[1].files["back_image"].filename)
            ELSE /\ back.tag = "div"
                 /\ back.data = <<>>
                 /\ IsFolded => /\ back.frag = "PANEL_4_CONTENT"
                                /\ back.caption = "Panel 4 - Back Cover"
                 /\ ~IsFolded => /\ back.frag = "BACK_PANEL_CONTENT"
                                 /\ back.caption = ""

C10_Witness ==
    /\ HasDoc
    /\ IsFolded
    /\ settings[1].pdf_profile = "PDF/X-1a"
    /\ Supplied("back_image")
    /\ ~Supplied("inside_image")
    /\ PanelContent(TheDoc, 1, 1).tag = "img"

----------------------------------------------------------------------------
(* C11 *)

\* The request sends a card_type that is neither 'flat' nor 'folded'
InvalidCardType(req) ==
    /\ "card_type" \in DOMAIN req.form
    /\ req.form["card_type"] \notin {"flat", "folded"}

\* C11: a request whose card_type is neither flat nor folded is rejected
\* before assembly: no document is handed to the backend or returned for it,
\* and so none is laid out as a flat card.
C11_InvalidCardTypeRejected ==
    (Len(request) > 0 /\ InvalidCardType(request[1])) =>
        /\ ~HasDoc
        /\ response[1].status = 400

----------------------------------------------------------------------------
(* C12 *)

\* The file of this field is sent with a name whose extension is not allowed
Disallowed(req, field) ==
    /\ field \in DOMAIN req.files
    /\ req.files[field].filename # <<"">>
    /\ ~allowed_file(req.files[field].filename)

\* The front image is missing, or an image the request supplies (the front
\* image; the back image under provide_all_images; the inside image under
\* provide_all_images on a folded card) has a disallowed extension
MustReject(req) ==
    \/ "image" \notin DOMAIN req.files
    \/ req.files["image"].filename = <<"">>
    \/ Disallowed(req, "image")
    \/ /\ FormIs(req.form, "provide_all_images", "true")
       /\ \/ Disallowed(req, "back_image")
          \/ /\ Get(req.form, "card_type", "flat") = "folded"
             /\ Disallowed(req, "inside_image")

\* C12: a /generate request without a front image, or with a supplied front,
\* back or inside image of a disallowed extension, is answered with a
\* validation error (status 400), nothing is handed to the rendering
\* backend, and the ICC store is as it was before the request.
C12_InvalidImagesRejected ==
    [][ ( /\ request = <<>>
          /\ Len(request') > 0
          /\ request'[1].route = "/generate"
          /\ MustReject(request'[1]) )
        => ( /\ response'[1].status = 400
             /\ backend' = <<>>
             /\ icc_profiles' = icc_profiles ) ]_vars

----------------------------------------------------------------------------
(* C13 *)

\* The request selects, by name, a profile the store does not hold, and
\* uploads none
NamesAbsentProfile(req, store) ==
    /\ req.route \in {"/generate", "/preview-html"}
    /\ "icc_file" \notin DOMAIN req.files
    /\ "icc_profile" \in DOMAIN req.form
    /\ req.form["icc_profile"] # <<"">>
    /\ ProfilePath(req.form["icc_profile"]) \notin DOMAIN store

\* The request deletes a profile the store does not hold
DeletesAbsentProfile(req, store) ==
    /\ req.route = "/api/icc-profiles/<filename>"
    /\ req.filename \notin DOMAIN store
    /\ secure_filename(req.filename) \notin DOMAIN store

\* The document a handler assembled for a request
DocOf(req, b, resp) ==
    IF req.route = "/generate" THEN b[1].document_content ELSE resp[1].html[1]

\* A step that answers a request naming a profile the store does not hold:
\* the request is not refused, and its document is assembled as with no ICC
\* profile, without an output-intent line
AbsentProfileDegrades ==
    (Len(request') > 0 /\ NamesAbsentProfile(request'[1], icc_profiles))
    => ( /\ response'[1].error \in {"", "DocRaptor API error"}
         /\ settings'[1].icc_base64 = None
         /\ LET lines == BlockLines(DocOf(request'[1], backend', response'))
            IN  \A k \in 1..Len(lines) : ~IsOutputIntentLine(lines[k]) )

\* A step that answers the delete of a profile the store does not hold: the
\* answer is 404 not-found and the store is as it was
DeleteAbsentNotFound ==
    (Len(request') > 0 /\ DeletesAbsentProfile(request'[1], icc_profiles))
    => ( /\ response'[1].status = 404
         /\ icc_profiles' = icc_profiles )

\* C13: after any sequence of saves and deletes, a request naming a profile
\* not in the store is processed as if no ICC profile were given (no
\* output-intent line), and a delete of an absent profile reports not-found
\* and leaves the store unchanged.
C13_AbsentProfile == [][AbsentProfileDegrades /\ DeleteAbsentNotFound]_vars

----------------------------------------------------------------------------
(* C14 *)

\* C14: under every interleaving of concurrent /generate requests, a
\* request answered with a PDF is answered with the PDF the backend returned
\* for its own document, never with the bytes of another request.
C14_OwnPdf ==
    \A t \in Threads :
        (Len(threads[t].response) > 0 /\ threads[t].response[1].status = 200)
        => /\ threads[t].pdf_content # None
           /\ threads[t].response[1].body = threads[t].pdf_content[1]
           /\ threads[t].response[1].body = RenderedPdf(threads[t].backend[1])

----------------------------------------------------------------------------
(* C15 *)

\* The request uploads a non-empty file with an .icc extension
UploadsIcc(req) ==
    /\ "icc_file" \in DOMAIN req.files
    /\ EndsWithIcc(req.files["icc_file"].filename)
    /\ req.files["icc_file"].data # <<>>

\* The bytes the output-intent lines of a document embed
OutputIntentBytes(d) ==
    LET lines == SelectSeq(BlockLines(d), IsOutputIntentLine)
    IN  [i \in 1..Len(lines) |->
            B64Decode(SubSeq(lines[i].value, 3, Len(lines[i].value)))]

\* C15: under every interleaving with other requests' uploads and deletes,
\* the document of a /generate request that uploads a non-empty .icc file
\* embeds, as its output intent, exactly the bytes that request uploaded,
\* whatever profile name it also selects; the document of a request without
\* such an upload embeds a profile only if the request selects one by name.
C15_UploadTakesPrecedence ==
    \A t \in Threads :
        Len(threads[t].backend) > 0 =>
            LET req == threads[t].req
                embedded == OutputIntentBytes(threads[t].backend[1].document_content)
            IN  /\ UploadsIcc(req) => embedded = <<req.files["icc_file"].data>>
                /\ (~UploadsIcc(req) /\ embedded # <<>>) =>
                       Get(req.form, "icc_profile", <<"">>) # <<"">>

----------------------------------------------------------------------------
(* C16 *)

\* The handler assembled a document for the request it answered
Assembled(req, resp) ==
    IF req.route = "/generate" THEN resp[1].error \in {"", "DocRaptor API error"}
    ELSE resp[1].status = 200

\* A step that answers a request with the form fields and files of the
\* request answered just before it and leaves the ICC store as it is, both
\* requests having a document assembled
SameInputsAgain ==
    /\ Len(request) > 0
    /\ Len(request') > 0
    /\ request'[1].form = request[1].form
    /\ request'[1].files = request[1].files
    /\ icc_profiles' = icc_profiles
    /\ Assembled(request[1], response)
    /\ Assembled(request'[1], response')

SameDocAgain ==
    DocOf(request'[1], backend', response') = DocOf(request[1], backend, response)

\* The request sends, as icc_file, a file named *.icc: /generate saves it
SendsIccFile(req) ==
    /\ "icc_file" \in DOMAIN req.files
    /\ req.files["icc_file"].filename # <<"">>
    /\ EndsWithIcc(req.files["icc_file"].filename)

\* The request before was answered without a write to the ICC store:
\* /preview-html never writes, /generate writes only an icc_file upload
LeavesStore(req) == req.route = "/preview-html" \/ ~SendsIccFile(req)

\* C16 as stated: with identical form fields and files and an unchanged ICC
\* store, /preview-html returns exactly the document /generate hands to the
\* backend, and either route called twice assembles the same document.
C16_AsStated ==
    [][ (SameInputsAgain /\ LeavesStore(request[1])) => SameDocAgain ]_vars

\* C16 (amended): with identical form fields and image files, no .icc file
\* sent as icc_file and an unchanged ICC store, /preview-html returns
\* exactly the document /generate hands to the backend; and either route
\* called twice with identical inputs, an upload included, assembles the
\* same document.
C16_PreviewIsGenerate ==
    [][ ( /\ SameInputsAgain
          /\ \/ ~SendsIccFile(request[1])
             \/ request'[1].route = request[1].route )
        => SameDocAgain ]_vars

\* /preview-html has answered after /generate, for the same fields without
\* an upload: the selected profile and use_true_black are in both documents,
\* which are the same
C16_Witness ==
    /\ Len(request) > 0
    /\ request[1].route = "/preview-html"
    /\ ~SendsIccFile(request[1])
    /\ FormIs(request[1].form, "icc_profile", <<"sRGB">>)
    /\ FormIs(request[1].form, "use_true_black", "true")
    /\ Len(backend) > 0
    /\ response[1].status = 200
    /\ Len(BlockLines(response[1].html[1])) = 3
    /\ OutputIntentBytes(response[1].html[1]) = <<icc_profiles[KnownProfile]>>
    /\ backend[1].document_content = response[1].html[1]

=============================================================================
